---- MODULE Spec2Model ----
(***************************************************************************)
(* Model of priv/sandbox/extract_mpqs.py: the scan loop of extract_mpqs    *)
(* over a host blob held in memory, the header reads, the validation, the  *)
(* clamped write of each accepted archive and the final report.            *)
(*                                                                         *)
(* Offsets are 0-based as in the Python source; data[i] of the source is   *)
(* data[i + 1] of the TLA+ sequence.                                       *)
(***************************************************************************)
EXTENDS Integers, Sequences, FiniteSets, TLC

VARIABLES data, pc, pos, idx, emitted, files, written, touched, reported,
          calls, prevOut

vars == <<data, pc, pos, idx, emitted, files, written, touched, reported,
          calls, prevOut>>

(***************************************************************************)
(* Bounds of the model.                                                    *)
(***************************************************************************)
MaxChunks == 4       \* a host blob is a concatenation of at most this many pieces
PadLen == 1000       \* length of the run of filler bytes
MaxCalls == 2        \* extract_mpqs is called at most this many times on the blob

(***************************************************************************)
(* Program constants.                                                      *)
(***************************************************************************)
sig == <<77, 80, 81, 26>>          \* b"MPQ\x1a"
HeaderSizeV1 == 32
MinArchiveSize == 1000

(***************************************************************************)
(* Host blobs.  Every blob is a byte sequence; the pieces it is built from *)
(* are chosen so that short headers, rejected headers, the validation      *)
(* boundary, clamped and unclamped sizes, a size with the top bit set and   *)
(* archives inside the extent of an earlier one all occur.                 *)
(***************************************************************************)
LE32(n) == <<n % 256, (n \div 256) % 256, (n \div 65536) % 256, n \div 16777216>>

Pieces ==
  { sig,                                   \* a bare signature
    sig \o LE32(32),                       \* signature + header_size 32
    LE32(1001),                            \* smallest accepted archive_size
    LE32(1000),                            \* largest rejected archive_size
    sig \o LE32(32) \o <<0, 0, 0, 128>>,   \* a header declaring 2^31 bytes
    <<0>> }                                \* one filler byte

Pad == [i \in 1..PadLen |-> 0]             \* a run of filler bytes

RECURSIVE Blobs(_)
Blobs(n) ==
  IF n = 0 THEN { <<>> }
  ELSE LET shorter == Blobs(n - 1)
       IN  shorter \cup { b \o p : b \in shorter, p \in Pieces }

\* the blobs of at most MaxChunks pieces, the last of which may be the filler
HostBlobs ==
  Blobs(MaxChunks) \cup { b \o Pad : b \in Blobs(MaxChunks - 1) }

(***************************************************************************)
(* Pure helpers, as the Python built-ins compute them.                     *)
(***************************************************************************)

\* bytes.find(sub, start) for a non-empty sub: the least offset >= start of an
\* occurrence, or -1 (the first byte is compared before the rest)
MatchesAt(d, sub, i) ==
  \A k \in 1..Len(sub) : d[i + k] = sub[k]

Find(d, sub, start) ==
  LET last == Len(d) - Len(sub)
      hits == { i \in start..last : d[i + 1] = sub[1] /\ MatchesAt(d, sub, i) }
  IN  IF hits = {} THEN -1
      ELSE CHOOSE i \in hits : \A j \in hits : i <= j

\* struct.unpack_from("<I", d, off) raises struct.error unless 4 bytes are there
UnpackFits(d, off) == off + 4 <= Len(d)

\* the field read with format "<i": the top bit is a sign
UnpackI32(d, off) ==
  LET h == d[off + 3] + 256 * d[off + 4]
  IN  [lo |-> d[off + 1] + 256 * d[off + 2],
       hi |-> IF h >= 32768 THEN h - 65536 ELSE h]

\* struct.unpack_from("<I", d, off)[0]: an unsigned 32-bit little-endian value,
\* kept as its two 16-bit halves (the value is hi * 65536 + lo, 0 .. 2^32 - 1)
UnpackU32(d, off) ==
  [lo |-> d[off + 1] + 256 * d[off + 2],
   hi |-> d[off + 3] + 256 * d[off + 4]]

U32Eq(u, n) == u.hi = n \div 65536 /\ u.lo = n % 65536

U32Gt(u, n) ==
  \/ u.hi > n \div 65536
  \/ u.hi = n \div 65536 /\ u.lo > n % 65536

\* min(archive_size, n) for an unsigned 32-bit archive_size and an integer n >= 0
MinU32(u, n) ==
  IF U32Gt(u, n) THEN n ELSE u.hi * 65536 + u.lo

\* d[lo:hi] of Python: both ends are clamped to the sequence
Slice(d, lo, hi) ==
  LET h == IF hi > Len(d) THEN Len(d) ELSE hi
  IN  IF lo >= h THEN <<>> ELSE SubSeq(d, lo + 1, h)

Digit == <<"0", "1", "2", "3", "4", "5", "6", "7", "8", "9">>

\* "%d" % n for n >= 0: the decimal digits of n, most significant first
RECURSIVE DecDigits(_)
DecDigits(n) ==
  IF n < 10 THEN << Digit[n + 1] >>
  ELSE Append(DecDigits(n \div 10), Digit[(n % 10) + 1])

\* every archive written under the name of index 0
FNameFixed(i) == <<"d2demo_">> \o DecDigits(0) \o <<".mpq">>

\* "d2demo_%d.mpq" % idx, below output_dir
FName(i) == <<"d2demo_">> \o DecDigits(i) \o <<".mpq">>

\* the floor itself accepted: archive_size >= 1000
AcceptsAtFloor(header_size, archive_size) ==
  /\ U32Eq(header_size, HeaderSizeV1)
  /\ U32Gt(archive_size, MinArchiveSize) \/ U32Eq(archive_size, MinArchiveSize)

\* header_size == 32 and archive_size > 1000
Accepts(header_size, archive_size) ==
  U32Eq(header_size, HeaderSizeV1) /\ U32Gt(archive_size, MinArchiveSize)

\* clamped to the size of the file, not to what is left of it
ActualSizeWholeFile(archive_size, d, p) == MinU32(archive_size, Len(d))

\* actual_size = min(archive_size, len(data) - pos)
ActualSize(archive_size, d, p) == MinU32(archive_size, Len(d) - p)

\* the cursor moved past the header instead of past the signature
AdvancePastHeader(m) == m + HeaderSizeV1

\* the cursor left on the match
AdvanceStuck(m) == m

\* pos += 4
Advance(m) == m + 4

(***************************************************************************)
(* State after construction: a blob on disk, extract_mpqs not yet called.  *)
(***************************************************************************)
Init ==
  /\ data \in HostBlobs
  /\ pc = "idle"
  /\ pos = 0
  /\ idx = 0
  /\ emitted = <<>>
  /\ files = <<>>
  /\ written = {}
  /\ touched = {}
  /\ reported = <<>>
  /\ calls = 0
  /\ prevOut = <<>>

\* a call that keeps the index counter of the call before it
StartCarryIdx ==
  /\ pc \in {"idle", "done", "raised"}
  /\ calls < MaxCalls
  /\ calls' = calls + 1
  /\ prevOut' = emitted
  /\ pos' = 0
  /\ emitted' = <<>>
  /\ written' = {}
  /\ touched' = {}
  /\ reported' = <<>>
  /\ pc' = "scan"
  /\ UNCHANGED <<data, files, idx>>

(***************************************************************************)
(* extract_mpqs is entered: the blob is read, the cursor and the index     *)
(* counter are fresh locals.  The output directory keeps its files.        *)
(***************************************************************************)
Start ==
  /\ pc \in {"idle", "done", "raised"}
  /\ calls < MaxCalls
  /\ calls' = calls + 1
  /\ prevOut' = emitted
  /\ pos' = 0
  /\ idx' = 0
  /\ emitted' = <<>>
  /\ written' = {}
  /\ touched' = {}
  /\ reported' = <<>>
  /\ pc' = "scan"
  /\ UNCHANGED <<data, files>>

(***************************************************************************)
(* The while loop.  At "scan" the loop is at its head, about to search;    *)
(* at "match" pos holds the offset of the occurrence that find returned.   *)
(***************************************************************************)

\* pos = data.find(sig, pos) returns -1: break, then the final print
ScanExhausted ==
  /\ pc = "scan"
  /\ Find(data, sig, pos) < 0
  /\ pos' = -1
  /\ reported' = <<idx>>
  /\ pc' = "done"
  /\ UNCHANGED <<data, idx, emitted, files, written, touched, calls, prevOut>>

\* pos = data.find(sig, pos) returns the offset of an occurrence
Found ==
  /\ pc = "scan"
  /\ Find(data, sig, pos) >= 0
  /\ pos' = Find(data, sig, pos)
  /\ pc' = "match"
  /\ UNCHANGED <<data, idx, emitted, files, written, touched, reported, calls,
                 prevOut>>

\* the header fields are not all inside the blob: struct.error leaves the call
HeaderError ==
  /\ pc = "match"
  /\ ~(UnpackFits(data, pos + 4) /\ UnpackFits(data, pos + 8))
  /\ touched' = touched \cup
                  (IF UnpackFits(data, pos + 4) THEN {<<pos + 4, pos + 8>>} ELSE {})
  /\ pc' = "raised"
  /\ UNCHANGED <<data, pos, idx, emitted, files, written, reported, calls,
                 prevOut>>

\* a rejected header that takes an index all the same
RejectCounting ==
  /\ pc = "match"
  /\ UnpackFits(data, pos + 4) /\ UnpackFits(data, pos + 8)
  /\ ~Accepts(UnpackU32(data, pos + 4), UnpackU32(data, pos + 8))
  /\ touched' = touched \cup {<<pos + 4, pos + 8>>, <<pos + 8, pos + 12>>}
  /\ pos' = Advance(pos)
  /\ idx' = idx + 1
  /\ pc' = "scan"
  /\ UNCHANGED <<data, emitted, files, written, reported, calls, prevOut>>

\* the header fails the validation: only the cursor moves
Reject ==
  /\ pc = "match"
  /\ UnpackFits(data, pos + 4) /\ UnpackFits(data, pos + 8)
  /\ ~Accepts(UnpackU32(data, pos + 4), UnpackU32(data, pos + 8))
  /\ touched' = touched \cup {<<pos + 4, pos + 8>>, <<pos + 8, pos + 12>>}
  /\ pos' = Advance(pos)
  /\ pc' = "scan"
  /\ UNCHANGED <<data, idx, emitted, files, written, reported, calls, prevOut>>

\* the header passes: the archive is written and counted, the cursor moves
Accept ==
  /\ pc = "match"
  /\ UnpackFits(data, pos + 4) /\ UnpackFits(data, pos + 8)
  /\ Accepts(UnpackU32(data, pos + 4), UnpackU32(data, pos + 8))
  /\ LET actual_size == ActualSize(UnpackU32(data, pos + 8), data, pos)
         fname == FName(idx)
         stop == IF pos + actual_size > Len(data) THEN Len(data)
                 ELSE pos + actual_size
     IN  /\ files' = [n \in DOMAIN files \cup {fname} |->
                        IF n = fname THEN Slice(data, pos, pos + actual_size)
                        ELSE files[n]]
         /\ written' = written \cup {fname}
         /\ emitted' = Append(emitted, [index |-> idx, start |-> pos,
                                        length |-> actual_size,
                                        fname |-> fname])
         /\ touched' = touched \cup
                         {<<pos + 4, pos + 8>>, <<pos + 8, pos + 12>>, <<pos, stop>>}
  /\ idx' = idx + 1
  /\ pos' = Advance(pos)
  /\ pc' = "scan"
  /\ UNCHANGED <<data, reported, calls, prevOut>>

Next == Start \/ ScanExhausted \/ Found \/ HeaderError \/ Reject \/ Accept

Spec == Init /\ [][Next]_vars

\* The code is one synchronous thread: a step that can be taken is taken.
\* Termination is checked over the blobs of one piece fewer, with the filler
\* after at most one piece.
TerminationBlobs ==
  Blobs(MaxChunks - 1) \cup { b \o Pad : b \in Blobs(1) }

TerminationInit == Init /\ data \in TerminationBlobs

FairSpec == TerminationInit /\ [][Next]_vars /\ WF_vars(Next)

(***************************************************************************)
(* The blob as the format describes it, byte by byte: what a signature     *)
(* occurrence, a genuine header and a declared size are.  Every blob of    *)
(* the model is shorter than 2^24 bytes, so a declared size whose top byte *)
(* is not zero exceeds every length that occurs.                           *)
(***************************************************************************)
SigAt(m) ==
  /\ m >= 0 /\ m + 4 <= Len(data)
  /\ data[m + 1] = 77 /\ data[m + 2] = 80 /\ data[m + 3] = 81 /\ data[m + 4] = 26

HeaderRoom(m) == Len(data) - m >= 12

HeaderSizeIs32(m) ==
  data[m + 5] = 32 /\ data[m + 6] = 0 /\ data[m + 7] = 0 /\ data[m + 8] = 0

DeclaredLow(m) == data[m + 9] + 256 * data[m + 10] + 65536 * data[m + 11]

DeclaredOver(m, n) == data[m + 12] > 0 \/ DeclaredLow(m) > n

GenuineAt(m) ==
  SigAt(m) /\ HeaderRoom(m) /\ HeaderSizeIs32(m) /\ DeclaredOver(m, 1000)

Genuine == { m \in 0..(Len(data) - 12) : GenuineAt(m) }

Occurrences == { m \in 0..(Len(data) - 4) : SigAt(m) }

Starts == { emitted[k].start : k \in 1..Len(emitted) }

Ended == pc \in {"done", "raised"}

(***************************************************************************)
(* C1.  A signature occurrence with fewer than 12 bytes after its start is *)
(* treated as no match: no error is raised there and the scan goes on.     *)
(***************************************************************************)
C1_ShortHeaderSkipped ==
  ~(pc = "raised" /\ SigAt(pos) /\ ~HeaderRoom(pos))

(***************************************************************************)
(* C2.  Every emitted archive lies inside the blob and is not empty:       *)
(* 0 <= start < len, length > 0, start + length <= len; and every range of *)
(* the blob that a header read or the payload slice touched lies inside    *)
(* [0, len).                                                               *)
(***************************************************************************)
C2_InBounds ==
  /\ \A k \in 1..Len(emitted) :
       /\ 0 <= emitted[k].start /\ emitted[k].start < Len(data)
       /\ emitted[k].length > 0
       /\ emitted[k].start + emitted[k].length <= Len(data)
  /\ \A r \in touched : 0 <= r[1] /\ r[1] <= r[2] /\ r[2] <= Len(data)

\* an archive that starts after offset 0 and runs to the last byte
C2_Witness ==
  \E k \in 1..Len(emitted) :
    /\ emitted[k].start > 0
    /\ emitted[k].start + emitted[k].length = Len(data)
    /\ <<emitted[k].start, Len(data)>> \in touched

(***************************************************************************)
(* C3.  Every emitted archive starts at a signature whose header_size      *)
(* field is 32 and whose archive_size field exceeds 1000; the index        *)
(* counter counts the emitted archives only, so an occurrence that fails   *)
(* either test takes no index.                                             *)
(***************************************************************************)
C3_OnlyGenuineEmitted ==
  /\ \A k \in 1..Len(emitted) : GenuineAt(emitted[k].start)
  /\ idx = Len(emitted)

\* a rejected occurrence precedes the first emitted archive, which has index 0
C3_Witness ==
  /\ Len(emitted) = 1
  /\ emitted[1].index = 0
  /\ \E m \in Occurrences :
       m < emitted[1].start /\ HeaderRoom(m) /\ ~GenuineAt(m)

(***************************************************************************)
(* C4.  Completeness: the emitted archives are exactly the genuine headers *)
(* the cursor has passed, each once; when the run has ended they are all   *)
(* the genuine headers of the blob.                                        *)
(***************************************************************************)
C4_Complete ==
  /\ Cardinality(Starts) = Len(emitted)
  /\ pc \in {"scan", "match"} => Starts = { m \in Genuine : m < pos }
  /\ Ended => Starts = Genuine

\* two archives, the second inside the declared extent of the first
C4_Witness ==
  /\ pc = "done"
  /\ Len(emitted) = 2
  /\ DeclaredOver(emitted[1].start, emitted[2].start - emitted[1].start)
  /\ Starts = Genuine

(***************************************************************************)
(* C5.  Clamping law: the emitted length is min(archive_size, len - start) *)
(* with archive_size unsigned, and a genuine header whose declared size    *)
(* runs past the end of the blob is still emitted, with length             *)
(* len - start.                                                            *)
(***************************************************************************)
C5_Clamped ==
  /\ \A k \in 1..Len(emitted) :
       LET m == emitted[k].start
           rest == Len(data) - m
       IN  emitted[k].length = IF DeclaredOver(m, rest) THEN rest
                               ELSE DeclaredLow(m)
  /\ Ended =>
       \A m \in Genuine :
         DeclaredOver(m, Len(data) - m) =>
           \E k \in 1..Len(emitted) :
             emitted[k].start = m /\ emitted[k].length = Len(data) - m

\* one archive whose declared size has the top bit set and is cut at the end
\* of the blob, and one whose declared size fits and is kept
C5_Witness ==
  /\ \E k \in 1..Len(emitted) :
       /\ data[emitted[k].start + 12] >= 128
       /\ emitted[k].length = Len(data) - emitted[k].start
  /\ \E k \in 1..Len(emitted) :
       /\ emitted[k].length = 1001
       /\ emitted[k].length < Len(data) - emitted[k].start

(***************************************************************************)
(* C6.  Archives are emitted in strictly increasing order of start offset  *)
(* and the k-th emitted archive (zero-based) has index k.                  *)
(***************************************************************************)
C6_Ordered ==
  \A k \in 1..Len(emitted) :
    /\ emitted[k].index = k - 1
    /\ \A j \in 1..(k - 1) : emitted[j].start < emitted[k].start

\* a rejected occurrence, then two archives with indices 0 and 1
C6_Witness ==
  /\ Len(emitted) = 2
  /\ emitted[1].index = 0 /\ emitted[2].index = 1
  /\ \E m \in Occurrences : m < emitted[1].start /\ HeaderRoom(m)

(***************************************************************************)
(* C7.  Every run reports the final count, and the reported count is the   *)
(* number of archives emitted in the run.                                  *)
(***************************************************************************)
C7_CountReported ==
  Ended => reported = <<Len(emitted)>>

(***************************************************************************)
(* C8.  The scan loop terminates: a search never moves the cursor back and *)
(* each match at m sets the next search start to m + 4, so the cursor at   *)
(* the head of the loop strictly increases from one pass to the next; the  *)
(* loop is left as soon as no signature is found at or after the cursor;   *)
(* and every scan that was started ends.                                   *)
(***************************************************************************)
C8_Terminates ==
  /\ [][(pc = "scan" /\ pc' = "match") => pos' >= pos]_vars
  /\ [][(pc = "match" /\ pc' = "scan") => pos' = pos + 4]_vars
  /\ [][(pc = "scan" /\ Occurrences \cap (pos..Len(data)) = {}) => pc' = "done"]_vars
  /\ (pc = "scan") ~> Ended

\* a scan that passed a rejected and an accepted occurrence and then ended
C8_Witness ==
  /\ pc = "done"
  /\ Len(emitted) >= 1
  /\ Cardinality(Occurrences) > Len(emitted)

(***************************************************************************)
(* C9.  Each accepted archive is written to one file, named d2demo_<i>.mpq *)
(* after its index i, whose contents are blob[start : start + length]; no  *)
(* two archives of a run share a name.                                     *)
(***************************************************************************)
DigitValue(c) == CHOOSE v \in 0..9 : Digit[v + 1] = c

RECURSIVE ParseDec(_)
ParseDec(s) ==
  IF Len(s) = 0 THEN 0
  ELSE 10 * ParseDec(SubSeq(s, 1, Len(s) - 1)) + DigitValue(s[Len(s)])

C9_FilesMatch ==
  /\ \A k \in 1..Len(emitted) :
       LET e == emitted[k]
           n == e.fname
       IN  /\ Len(n) >= 3
           /\ n[1] = "d2demo_" /\ n[Len(n)] = ".mpq"
           /\ \A i \in 2..(Len(n) - 1) : \E v \in 0..9 : Digit[v + 1] = n[i]
           /\ n[2] = "0" => Len(n) = 3
           /\ ParseDec(SubSeq(n, 2, Len(n) - 1)) = e.index
           /\ n \in DOMAIN files
           /\ files[n] = SubSeq(data, e.start + 1, e.start + e.length)
           /\ \A j \in 1..Len(emitted) : j # k => emitted[j].fname # n
  /\ written = { emitted[k].fname : k \in 1..Len(emitted) }
  /\ Cardinality(written) = Len(emitted)

\* two files of one run with different contents
C9_Witness ==
  /\ Len(emitted) = 2
  /\ files[emitted[1].fname] # files[emitted[2].fname]
  /\ Cardinality(DOMAIN files) = 2

(***************************************************************************)
(* C10.  Carving the same blob again yields the same sequence of           *)
(* (index, start, length) triples: a call starts from a fresh cursor and a *)
(* fresh index counter, and no call changes the blob.                      *)
(***************************************************************************)
Triples(out) ==
  [k \in 1..Len(out) |-> <<out[k].index, out[k].start, out[k].length>>]

C10_Repeatable ==
  /\ []((calls >= 2 /\ Ended) => Triples(emitted) = Triples(prevOut))
  /\ [][data' = data]_vars
  /\ [][calls' # calls => (pos' = 0 /\ idx' = 0)]_vars

\* a second call that emitted archives has ended
C10_Witness ==
  /\ calls = 2
  /\ Ended
  /\ Len(emitted) >= 1
  /\ Len(prevOut) >= 1

====
